---- MODULE Spec2Model ----
(***************************************************************************)
(* A model of the Deep-Learning-Sandbox shared utilities:                  *)
(*   shared_utils/model_initializer.py  (InitializeModel, TimingCallback)  *)
(*   shared_utils/prep_training_data.py (Dataset, ImgMaskDataset,          *)
(*                                       ImgLabelDataset)                  *)
(* Six state machines share the module: SpecResolve (model-name            *)
(* resolution and constructor-symbol composition), SpecData (dataset       *)
(* construction, splitting, batch sizing and step counts), SpecSplit (the  *)
(* split element by element), SpecTrain (checkpoint/history file           *)
(* lifecycle, training runs and the local-minima escape procedure),        *)
(* SpecConstruct (the whole of InitializeModel.__init__ on a caller's      *)
(* dataset) and SpecOptim (the optimization parameters across runs).       *)
(***************************************************************************)
EXTENDS Integers, Sequences, FiniteSets, TLC

VARIABLES
    \* ---- InitializeModel: name resolution (SpecResolve) ----
    r_pc,               \* position inside InitializeModel.__init__
    requested_name,     \* the model_name argument as passed by the caller
    model_name,         \* self.model_name
    model_name_base,    \* self.model_name_base
    model_complexity,   \* self.model_complexity
    model_type,         \* self.model_type
    import_statement,   \* first value returned by make_import_statement
    method_name,        \* second value returned by make_import_statement
    r_err               \* the exception that ended construction ("" if none)

VARIABLES
    \* ---- Dataset / ImgMaskDataset / ImgLabelDataset (SpecData) ----
    d_pc,               \* "new", "constructed" or "failed" (the constructor raised)
    d_kind,             \* "mask" (ImgMaskDataset), "label" (ImgLabelDataset), "none"
    n_images,           \* files listed in the image directory
    n_targets,          \* files listed in the mask directory / rows of the label file
    has_gpu,            \* tf.config.list_physical_devices('GPU') is non-empty
    num_examples,       \* self.num_examples
    batch_size,         \* self.batch_size
    train_count,        \* samples in the train split
    valid_count,        \* samples in the validation split
    test_count,         \* samples in the test split (mask mode only)
    train_dataset,      \* self.train_dataset: the batched pipeline
    valid_dataset,      \* self.valid_dataset: the batched pipeline
    train_steps,        \* self.train_steps
    valid_steps,        \* self.valid_steps
    d_err,              \* the exception raised by the last operation ("" if none)
    d_stage,            \* the constructor stage that raised ("" if none)
    last_request,       \* argument of the last set_batch_size call (-1: none yet)
    last_limit          \* memory-derived maximum seen by that call

VARIABLES
    \* ---- InitializeModel: files, training runs, escape (SpecTrain) ----
    t_pc,               \* "new", "ready", "fit", "esc_loop", "esc_fit", "escaped", "failed"
    fresh_requested,    \* the train_fresh argument of __init__
    ckpt_existed,       \* the checkpoint file existed before construction
    hist_existed,       \* the history file existed before construction
    train_fresh,        \* self.train_fresh
    weights_loaded,     \* "no", "yes", or "failed" (load_weights raised)
    fs,                 \* the files of the output directory: path -> [exists, data]
    mc_best,            \* ModelCheckpoint.best: -1 for +inf, else a loss level
    run_no,             \* number of run_model calls started so far
    epoch,              \* epochs completed in the current run_model call
    num_epochs,         \* self.num_epochs
    history_metric,     \* self.history.history['dice_coef'][-1]; -1: no history yet
    backup_models,      \* the records of try_bypass_local_minimum, in insertion order
    esc_i,              \* loop variable i of try_bypass_local_minimum
    esc_n,              \* n_times
    callback_order,     \* the callbacks in the order they ran at the last epoch end
    esc_steps,          \* the steps of the current escape attempt, in the order taken
    t_err               \* the exception that ended the last operation ("" if none)

\* the element-level view of ImgMaskDataset's split (prep_training_data.py)
VARIABLES
    s_pc,               \* "idle", "new", "constructed" or "failed"
    s_kind,             \* "none", "mask" (ImgMaskDataset) or "label" (ImgLabelDataset)
    s_items,            \* number of images (and of masks) in the sorted listings
    generator,          \* which generator numpy's RandomState is (see next_state)
    s_seed,             \* self.seed
    np_random,          \* state of numpy's global generator
    train_pairs,        \* the (image, mask) pairs the training pipeline is built from
    valid_pairs,        \* the pairs the validation pipeline is built from
    test_pairs,         \* the pairs of the test subset of the last prep_data_img_labels
    last_split,         \* seed and result of the most recent load_data call
    prev_split,         \* seed and result of the load_data call before it
    s_calls,            \* number of load_data calls so far
    s_err               \* the exception that ended the last operation ("" if none)

\* the whole of InitializeModel.__init__ on a caller's dataset (SpecConstruct)
VARIABLES
    c_pc,               \* "idle", "new", "resolve", "make_model", "built" or "failed"
    run_debug,          \* the run_debug argument of __init__
    dir_existed,        \* the output directory existed before construction
    dir_event,          \* what make_new_dirs did: "none", "created", "cleaned", "kept"
    caller_train,       \* dataset.train_dataset when __init__ was entered
    caller_valid        \* dataset.valid_dataset when __init__ was entered

\* InitializeModel: the optimization parameters; learning rates are counted
\* in units of 1e-4
VARIABLES
    learning_rate_base, \* self.learning_rate_base
    learning_rate,      \* self.learning_rate (NoRate: the attribute does not exist)
    optimizer,          \* the learning rate of self.optimizer (NoRate: not built yet)
    compiled_rate       \* the learning rate of the optimizer the model was last
                        \* compiled with (NoRate: never compiled)

resolveVars == <<r_pc, requested_name, model_name, model_name_base,
                 model_complexity, model_type, import_statement, method_name, r_err>>

dataVars == <<d_pc, d_kind, n_images, n_targets, has_gpu, num_examples, batch_size,
              train_count, valid_count, test_count, train_dataset, valid_dataset,
              train_steps, valid_steps, d_err, d_stage, last_request, last_limit>>

trainVars == <<t_pc, fresh_requested, ckpt_existed, hist_existed, train_fresh,
               weights_loaded, fs, mc_best, run_no, epoch, num_epochs, history_metric,
               backup_models, esc_i, esc_n, callback_order, esc_steps, t_err>>

splitVars == <<s_pc, s_kind, s_items, generator, s_seed, np_random, train_pairs, valid_pairs, test_pairs,
               last_split, prev_split, s_calls, s_err>>

constructVars == <<c_pc, run_debug, dir_existed, dir_event, caller_train, caller_valid>>

optVars == <<learning_rate_base, learning_rate, optimizer, compiled_rate>>

vars == <<resolveVars, dataVars, trainVars, splitVars, constructVars, optVars>>

\* an attribute that is not set, an optimizer that does not exist
NoRate == -1

\* the optimization parameters while no orchestrator exists
OptIdle ==
    /\ learning_rate_base = NoRate /\ learning_rate = NoRate
    /\ optimizer = NoRate /\ compiled_rate = NoRate

\* a pipeline that was never built (take = -1: the pipeline is not truncated)
NoDataset == [split |-> "none", samples |-> 0, batch |-> 0, take |-> -1]

\* the construction variables while no construction is followed
ConstructIdle ==
    /\ c_pc = "idle" /\ run_debug = FALSE
    /\ dir_existed = FALSE /\ dir_event = "none"
    /\ caller_train = NoDataset /\ caller_valid = NoDataset

\* the dataset variables while no dataset object exists
DataIdle ==
    /\ d_pc = "new" /\ d_kind = "none"
    /\ n_images = 0 /\ n_targets = 0 /\ has_gpu = FALSE
    /\ num_examples = 0 /\ batch_size = 0
    /\ train_count = 0 /\ valid_count = 0 /\ test_count = 0
    /\ train_dataset = NoDataset /\ valid_dataset = NoDataset
    /\ train_steps = 0 /\ valid_steps = 0
    /\ d_err = "" /\ d_stage = ""
    /\ last_request = -1 /\ last_limit = -1

\* the resolver variables while no orchestrator is being constructed
ResolveIdle ==
    /\ r_pc = "idle" /\ requested_name = "" /\ model_name = ""
    /\ model_name_base = "" /\ model_complexity = "" /\ model_type = ""
    /\ import_statement = "" /\ method_name = "" /\ r_err = ""

\* no load_data call has returned yet
NoSplit == [seed |-> -1, train_x |-> <<>>, train_y |-> <<>>, valid_x |-> <<>>,
            valid_y |-> <<>>, test_x |-> <<>>, test_y |-> <<>>]

\* the element-level variables while unused
SplitIdle ==
    /\ s_pc = "idle" /\ s_kind = "none" /\ s_items = 0 /\ generator = 0 /\ s_seed = 0 /\ np_random = 0
    /\ train_pairs = <<>> /\ valid_pairs = <<>> /\ test_pairs = <<>>
    /\ last_split = NoSplit /\ prev_split = NoSplit
    /\ s_calls = 0 /\ s_err = ""

\* the orchestrator variables while no orchestrator exists
TrainIdle ==
    /\ t_pc = "idle" /\ fresh_requested = FALSE
    /\ ckpt_existed = FALSE /\ hist_existed = FALSE
    /\ train_fresh = FALSE /\ weights_loaded = "no"
    /\ fs = <<>> /\ mc_best = -1 /\ run_no = 0 /\ epoch = 0 /\ num_epochs = 0
    /\ history_metric = -1 /\ backup_models = <<>>
    /\ esc_i = 0 /\ esc_n = 0 /\ callback_order = <<>> /\ esc_steps = <<>>
    /\ t_err = ""

-----------------------------------------------------------------------------
(*                           Python str operations                         *)

Min2(a, b) == IF a <= b THEN a ELSE b

\* str.startswith
startswith(s, p) == Len(p) <= Len(s) /\ SubSeq(s, 1, Len(p)) = p

\* str.find, 1-based; 0 when sub does not occur
find(s, sub) ==
    LET hits == {i \in 1..(Len(s) - Len(sub) + 1) : SubSeq(s, i, i + Len(sub) - 1) = sub}
    IN  IF hits = {} THEN 0 ELSE CHOOSE i \in hits : \A j \in hits : i <= j

\* the `in` operator on strings
contains(s, sub) == find(s, sub) # 0

\* s.split(sep)[-1]: what follows the last of the non-overlapping
\* occurrences of sep found scanning s from the left
RECURSIVE split_last(_, _)
split_last(s, sep) ==
    LET i == find(s, sep)
    IN  IF i = 0 THEN s ELSE split_last(SubSeq(s, i + Len(sep), Len(s)), sep)

\* str.replace
RECURSIVE replace(_, _, _)
replace(s, old, new) ==
    LET i == find(s, old)
    IN  IF i = 0 THEN s
        ELSE SubSeq(s, 1, i - 1) \o new \o replace(SubSeq(s, i + Len(old), Len(s)), old, new)

LowerLetters == "abcdefghijklmnopqrstuvwxyz"
UpperLetters == "ABCDEFGHIJKLMNOPQRSTUVWXYZ"

CharMap(c, from, to) ==
    LET i == find(from, c) IN IF i = 0 THEN c ELSE SubSeq(to, i, i)

\* str.lower
RECURSIVE lower(_)
lower(s) ==
    IF Len(s) = 0 THEN s
    ELSE CharMap(SubSeq(s, 1, 1), UpperLetters, LowerLetters) \o lower(Tail(s))

\* str.upper
RECURSIVE upper(_)
upper(s) ==
    IF Len(s) = 0 THEN s
    ELSE CharMap(SubSeq(s, 1, 1), LowerLetters, UpperLetters) \o upper(Tail(s))

-----------------------------------------------------------------------------
(*                     model_initializer.py: the catalog                   *)

valid_models_builtin ==
    {"efficientnet", "efficientnet_v2", "densenet", "vgg", "inception",
     "inception_resnet", "resnet", "resnet_v2", "resnet_rs", "regnet",
     "mobilenet", "mobilenet_v2", "mobilenet_v3", "xception"}

valid_models_custom == {"unet"}

valid_model_names_all == valid_models_builtin \cup valid_models_custom

\* the value stored in the dictionaries for a key: 'class' or 'segm'
catalog_type(key) == IF key \in valid_models_custom THEN "segm" ELSE "class"

-----------------------------------------------------------------------------
(*            InitializeModel.get_complexity_from_model_name               *)

\* the list comprehension of line 215
prefix_keys(name) == {k \in valid_model_names_all : startswith(name, k)}

min_by_len(keys) == CHOOSE k \in keys : \A j \in keys : Len(k) <= Len(j)

\* max(model_name_base, key=len)
max_by_len(keys) == CHOOSE k \in keys : \A j \in keys : Len(j) <= Len(k)

\* lines 220-222
complexity_of(name, base) ==
    replace(replace(split_last(name, base), "small", "Small"), "large", "Large")

ComplexityLimit == 12

\* the condition of line 223
complexity_too_long(c) == Len(c) > ComplexityLimit

get_complexity_from_model_name ==
    /\ r_pc = "get_complexity"
    /\ IF prefix_keys(model_name) = {}
       THEN /\ r_err' = "UnknownBaseModel"
            /\ r_pc' = "failed"
            /\ UNCHANGED <<model_name_base, model_complexity>>
       ELSE LET base == max_by_len(prefix_keys(model_name))
                cplx == complexity_of(model_name, base)
            IN  /\ model_name_base' = base
                /\ model_complexity' = cplx
                /\ IF complexity_too_long(cplx)
                   THEN r_err' = "ComplexitySpecTooLong" /\ r_pc' = "failed"
                   ELSE r_err' = r_err /\ r_pc' = "set_model_type"
    /\ UNCHANGED <<requested_name, model_name, model_type, import_statement, method_name>>

-----------------------------------------------------------------------------
(*                     InitializeModel.set_model_type                      *)

set_model_type ==
    /\ r_pc = "set_model_type"
    /\ IF model_name_base \notin valid_model_names_all
       THEN r_err' = "UnknownBaseModel" /\ r_pc' = "failed" /\ model_type' = model_type
       ELSE IF catalog_type(model_name_base) \in {"class", "segm"}
       THEN r_err' = r_err /\ r_pc' = "make_model" /\ model_type' = catalog_type(model_name_base)
       ELSE r_err' = "UnsupportedTaskType" /\ r_pc' = "failed" /\ model_type' = model_type
    /\ UNCHANGED <<requested_name, model_name, model_name_base, model_complexity,
                   import_statement, method_name>>

-----------------------------------------------------------------------------
(*        InitializeModel.make_import_statement and its helpers            *)

\* a variant that looks for the version marker in the name being composed
append_version_of_name(base, name) ==
    IF contains(name, "_v2") THEN name \o "V2"
    ELSE IF contains(name, "_v3") THEN name \o "V3"
    ELSE name

\* append_version: the version is read from the base name only
append_version(base, name) ==
    IF contains(base, "_v2") THEN name \o "V2"
    ELSE IF contains(base, "_v3") THEN name \o "V3"
    ELSE name

\* the version the resolved name carries (none, v2, v3), as append_version reads it
version_of(base) ==
    IF contains(base, "_v2") THEN "v2"
    ELSE IF contains(base, "_v3") THEN "v3"
    ELSE "none"

\* check_model_complexity_spec raises when the complexity is empty
missing_complexity(cplx) == cplx = ""

ApplicationsNamespace == "tensorflow.keras.applications"

\* make_import_statement_builtin as a function of (base, complexity):
\* [err, import_statement, method_name, model_complexity]
make_import_statement_builtin(base, cplx) ==
    LET imp0 == ApplicationsNamespace \o "." \o base
        out(e, imp, prefix, c) ==
            [err |-> e, import_statement |-> imp,
             method_name |-> IF startswith(base, "resnet")
                             THEN append_version(base, prefix \o c)
                             ELSE prefix \o c,
             model_complexity |-> c]
        raise(e, c) ==
            [err |-> e, import_statement |-> "", method_name |-> "", model_complexity |-> c]
    IN  IF startswith(base, "efficientnet")
        THEN out("", imp0, append_version(base, "EfficientNet"), upper(cplx))
        ELSE IF base = "densenet"
        THEN IF missing_complexity(cplx) THEN raise("MissingComplexity", cplx)
             ELSE out("", imp0, "DenseNet", cplx)
        ELSE IF base = "vgg"
        THEN IF missing_complexity(cplx) THEN raise("MissingComplexity", cplx)
             ELSE out("", imp0 \o cplx, "VGG", cplx)
        ELSE IF base = "inception"
        THEN out("", imp0 \o "_v3", "InceptionV3", cplx)
        ELSE IF base = "inception_resnet"
        THEN out("", imp0 \o "_v2", "InceptionResNetV2", cplx)
        ELSE IF startswith(base, "resnet")
        THEN IF missing_complexity(cplx) THEN raise("MissingComplexity", cplx)
             ELSE out("", imp0, IF contains(base, "_rs") THEN "ResNetRS" ELSE "ResNet", cplx)
        ELSE IF startswith(base, "regnet")
        THEN IF missing_complexity(upper(cplx)) THEN raise("MissingComplexity", upper(cplx))
             ELSE out("", imp0, "RegNet", upper(cplx))
        ELSE IF startswith(base, "mobilenet")
        THEN out("", ApplicationsNamespace, append_version(base, "MobileNet"), cplx)
        ELSE IF startswith(base, "xception")
        THEN out("", imp0, append_version(base, "Xception"), cplx)
        ELSE raise("ModelConstructionFailed", cplx)

PackageTop == "<package>"

\* make_path_to_custom_models
make_path_to_custom_models(name) ==
    PackageTop \o "/common_models/" \o name \o "/" \o name \o "_model.py"

\* make_import_statement, the first step of make_model
make_import_statement ==
    /\ r_pc = "make_model"
    /\ LET b == make_import_statement_builtin(model_name_base, model_complexity)
           res == IF model_name_base \in valid_models_builtin THEN b
                  ELSE IF startswith(model_name, "unet")
                  THEN [err |-> "", import_statement |-> make_path_to_custom_models(model_name),
                        method_name |-> "build_unet", model_complexity |-> model_complexity]
                  ELSE [err |-> "", import_statement |-> "", method_name |-> "",
                        model_complexity |-> model_complexity]
       IN  /\ model_complexity' = res.model_complexity
           /\ IF res.err # ""
              THEN /\ r_err' = res.err /\ r_pc' = "failed"
                   /\ UNCHANGED <<import_statement, method_name>>
              ELSE IF res.import_statement = "" \/ res.method_name = ""
              THEN /\ r_err' = "ModelConstructionFailed" /\ r_pc' = "failed"
                   /\ UNCHANGED <<import_statement, method_name>>
              ELSE /\ r_err' = r_err /\ r_pc' = "imported"
                   /\ import_statement' = res.import_statement
                   /\ method_name' = res.method_name
    /\ UNCHANGED <<requested_name, model_name, model_name_base, model_type>>

-----------------------------------------------------------------------------
(*                    SpecResolve: the inputs and the machine               *)

\* longest run of filler characters put between a base key and the rest
MaxPad == 14

RECURSIVE Pad(_)
Pad(k) == IF k = 0 THEN "" ELSE "a" \o Pad(k - 1)

NameHeads == valid_model_names_all \cup {"ResNet", "VGG", "EfficientNet_V2", "lenet", ""}

NameTails(head) ==
    {"", "50", "b2", "B2", "16", "50_v2", "_v250", "_v2", "_v3small", "small",
     "large", "_resnet", "v2", "_rs101"}
    \cup {Pad(k) : k \in 1..MaxPad}
    \cup {Pad(k) \o lower(head) \o "50" : k \in 1..MaxPad}

RequestedNames == UNION {{h \o t : t \in NameTails(h)} : h \in NameHeads}

\* __init__ line 47: self.model_name = model_name.lower()
InitResolve ==
    /\ requested_name \in RequestedNames
    /\ model_name = lower(requested_name)
    /\ r_pc = "get_complexity"
    /\ model_name_base = ""
    /\ model_complexity = ""
    /\ model_type = ""
    /\ import_statement = ""
    /\ method_name = ""
    /\ r_err = ""
    /\ DataIdle
    /\ TrainIdle
    /\ SplitIdle
    /\ ConstructIdle
    /\ OptIdle

NextResolve ==
    \/ get_complexity_from_model_name /\ UNCHANGED <<dataVars, trainVars, splitVars, constructVars, optVars>>
    \/ set_model_type /\ UNCHANGED <<dataVars, trainVars, splitVars, constructVars, optVars>>
    \/ make_import_statement /\ UNCHANGED <<dataVars, trainVars, splitVars, constructVars, optVars>>

SpecResolve == InitResolve /\ [][NextResolve]_vars

-----------------------------------------------------------------------------
(*                    Properties of the name resolution                     *)

\* the resolver has run and found at least one catalog key prefixing the name
Resolved == r_pc # "get_complexity" /\ prefix_keys(model_name) # {}

\* what is left of the name once the matched key is stripped from its front
StrippedRemainder == SubSeq(model_name, Len(model_name_base) + 1, Len(model_name))

\* C6: whenever some catalog key is a prefix of the lower-cased name, the
\* resolved base is a catalog key prefixing the name and no catalog key that
\* prefixes the name is longer; so a name starting with 'inception_resnet'
\* resolves to 'inception_resnet' and one starting with 'resnet_v2' to 'resnet_v2'.
C6_LongestPrefix ==
    Resolved =>
        /\ model_name_base \in valid_model_names_all
        /\ startswith(model_name, model_name_base)
        /\ \A k \in valid_model_names_all :
              startswith(model_name, k) => Len(k) <= Len(model_name_base)
        /\ startswith(model_name, "inception_resnet") => model_name_base = "inception_resnet"
        /\ startswith(model_name, "resnet_v2") => model_name_base = "resnet_v2"

C6_Witness ==
    /\ r_pc = "set_model_type"
    /\ requested_name = "inception_resnet_v2"
    /\ model_name_base = "inception_resnet"

\* C7 as stated: 'resnet50_v2' resolves to base 'resnet', complexity '50',
\* version v2, and the composed constructor symbol is 'ResNet50V2'.
C7_Original ==
    (requested_name = "resnet50_v2" /\ r_pc = "imported") =>
        /\ model_name_base = "resnet"
        /\ model_complexity = "50"
        /\ version_of(model_name_base) = "v2"
        /\ method_name = "ResNet50V2"

\* C7 amended: 'resnet50_v2' resolves to base 'resnet' with complexity '50_v2'
\* and no version, and the symbol composed for it is 'ResNet50_v2'; the name
\* that resolves to complexity '50', version v2 and symbol 'ResNet50V2' is
\* 'resnet_v250' (base 'resnet_v2').
C7_Amended ==
    /\ (requested_name = "resnet50_v2" /\ r_pc = "imported") =>
          /\ model_name_base = "resnet"
          /\ model_complexity = "50_v2"
          /\ version_of(model_name_base) = "none"
          /\ method_name = "ResNet50_v2"
    /\ (requested_name = "resnet_v250" /\ r_pc = "imported") =>
          /\ model_name_base = "resnet_v2"
          /\ model_complexity = "50"
          /\ version_of(model_name_base) = "v2"
          /\ method_name = "ResNet50V2"
    /\ (requested_name \in {"resnet50_v2", "resnet_v250"} /\ r_pc # "get_complexity") =>
          r_err = ""

C7_Witness == requested_name = "resnet50_v2" /\ r_pc = "imported" /\ method_name = "ResNet50_v2"

\* C8 as stated: the complexity token is the normalised remainder of the name
\* after the matched key is stripped from its front, and every name whose
\* remainder is longer than 12 characters fails with ComplexitySpecTooLong,
\* also when the base key occurs again inside the remainder.
C8_LongRemainderRejected ==
    Resolved =>
        /\ r_pc = "set_model_type" =>
              model_complexity =
                  replace(replace(StrippedRemainder, "small", "Small"), "large", "Large")
        /\ Len(StrippedRemainder) > ComplexityLimit => r_err = "ComplexitySpecTooLong"

-----------------------------------------------------------------------------
(*                 prep_training_data.py: arithmetic helpers               *)

CeilDiv(a, b) == (a + b - 1) \div b

\* round(a / b) for non-negative a and positive b: Python rounds a half to
\* the even neighbour
PyRound(a, b) ==
    LET q == a \div b
        r == a % b
    IN  IF 2 * r < b THEN q
        ELSE IF 2 * r > b THEN q + 1
        ELSE IF q % 2 = 0 THEN q ELSE q + 1

RECURSIVE Pow2Ceil(_)
\* 2**math.ceil(math.log2(n)) for n >= 1
Pow2Ceil(n) == IF n <= 1 THEN 1 ELSE 2 * Pow2Ceil((n + 1) \div 2)

RECURSIVE Pow2Floor(_)
\* 2**math.floor(math.log2(n)) for n >= 1
Pow2Floor(n) == IF n <= 1 THEN 1 ELSE 2 * Pow2Floor(n \div 2)

RECURSIVE IsPowerOfTwo(_)
IsPowerOfTwo(n) == n >= 1 /\ (n = 1 \/ (n % 2 = 0 /\ IsPowerOfTwo(n \div 2)))

-----------------------------------------------------------------------------
(*                     Dataset: discovery of the samples                   *)

DefaultBatchSize == 16

\* hasattr(self, 'num_images'): no statement of the class assigns num_images
has_num_images == FALSE

\* Dataset.make_image_dirs with `listed` files found by get_image_list
\* (which raises when it finds none): [err, num_examples]
make_image_dirs(listed, old_num_examples) ==
    IF listed = 0
    THEN [err |-> "FileNotFound", num_examples |-> old_num_examples]
    ELSE IF has_num_images /\ listed # old_num_examples
    THEN [err |-> "CountMismatch", num_examples |-> old_num_examples]
    ELSE [err |-> "", num_examples |-> listed]

\* the check of ImgLabelDataset.read_labels_from_excel
labels_mismatched(rows, images) == rows # images

-----------------------------------------------------------------------------
(*                      ImgMaskDataset.load_data                           *)

SplitNum == 1
SplitDen == 5

\* int(len(images) * split) with split = 0.2
split_size(n) == (n * SplitNum) \div SplitDen

\* sklearn train_test_split(list of n, test_size = an absolute count):
\* raises unless 0 < test_size < n
train_test_split(n, test_size) ==
    IF test_size <= 0 \/ test_size >= n
    THEN [err |-> "SplitFailed", train |-> 0, test |-> 0]
    ELSE [err |-> "", train |-> n - test_size, test |-> test_size]

test_size_of_remaining(images, remaining) == split_size(remaining)

\* the test_size of the second pair of splits: the same `size` again
test_size_second(images, remaining) == split_size(images)

\* load_data(images, masks): the lengths of the six lists it returns
load_data(images, masks) ==
    LET size == split_size(images)
        x1 == train_test_split(images, size)
        y1 == train_test_split(masks, size)
        x2 == train_test_split(x1.train, test_size_second(images, x1.train))
        y2 == train_test_split(y1.train, test_size_second(images, x1.train))
    IN  IF x1.err # "" \/ y1.err # "" THEN [err |-> "SplitFailed"]
        ELSE IF x2.err # "" \/ y2.err # "" THEN [err |-> "SplitFailed"]
        ELSE [err |-> "", train_x |-> x2.train, train_y |-> y2.train,
              valid_x |-> x1.test, valid_y |-> y1.test,
              test_x |-> x2.test, test_y |-> y2.test]

-----------------------------------------------------------------------------
(*                Dataset.tf_dataset and Dataset.calc_train_steps          *)

\* tf_dataset: the samples of one split, batched with the batch size in force
\* when the pipeline is built
tf_dataset(split, samples, batch) ==
    [split |-> split, samples |-> samples, batch |-> batch, take |-> -1]

\* len() of a batched pipeline: its number of batches, at most `take` of them
\* once the pipeline is truncated
len_dataset(ds) ==
    IF ds.take = -1 THEN CeilDiv(ds.samples, ds.batch)
    ELSE Min2(CeilDiv(ds.samples, ds.batch), ds.take)

\* tf.data.Dataset.take(count): the first `count` batches of the pipeline
take(ds, count) ==
    [ds EXCEPT !.take = IF ds.take = -1 THEN count ELSE Min2(ds.take, count)]

\* lines 166-173 for one pipeline of len() = length
steps_of(length, batch) ==
    PyRound(length, batch) + (IF length % batch # 0 THEN 1 ELSE 0)

\* calc_train_steps: [train_steps, valid_steps]
calc_train_steps(train_ds, valid_ds, batch) ==
    [train_steps |-> steps_of(len_dataset(train_ds), batch),
     valid_steps |-> steps_of(len_dataset(valid_ds), batch)]

-----------------------------------------------------------------------------
(*                         The dataset constructors                        *)

ConstructorFails(stage, err) ==
    /\ d_pc' = "failed" /\ d_err' = err /\ d_stage' = stage
    /\ UNCHANGED <<train_count, valid_count, test_count, train_dataset, valid_dataset,
                   train_steps, valid_steps>>

\* ImgMaskDataset.__init__(paths_training)
ImgMaskDataset_init(keys_present) ==
    /\ d_pc = "new"
    /\ d_kind' = "mask"
    /\ UNCHANGED <<n_images, n_targets, has_gpu, last_request, last_limit>>
    /\ LET imgs == make_image_dirs(n_images, 0)
           msks == make_image_dirs(n_targets, imgs.num_examples)
           parts == load_data(n_images, n_targets)
       IN  IF ~keys_present
           THEN /\ ConstructorFails("keys", "MissingRequiredPathKey")
                /\ UNCHANGED <<num_examples, batch_size>>
           ELSE IF imgs.err # ""
           THEN /\ ConstructorFails("discover", imgs.err)
                /\ UNCHANGED <<num_examples, batch_size>>
           ELSE IF msks.err # ""
           THEN /\ ConstructorFails("discover", msks.err)
                /\ num_examples' = msks.num_examples
                /\ batch_size' = DefaultBatchSize
           ELSE /\ num_examples' = msks.num_examples
                /\ batch_size' = DefaultBatchSize
                /\ IF parts.err # ""
                   THEN ConstructorFails("split", parts.err)
                   ELSE IF parts.train_x # parts.train_y
                   THEN ConstructorFails("shuffle", "InconsistentLengths")
                   ELSE LET tr == tf_dataset("train", parts.train_x, DefaultBatchSize)
                            va == tf_dataset("valid", parts.valid_x, DefaultBatchSize)
                            st == calc_train_steps(tr, va, DefaultBatchSize)
                        IN  /\ d_pc' = "constructed" /\ d_err' = "" /\ d_stage' = ""
                            /\ train_count' = parts.train_x
                            /\ valid_count' = parts.valid_x
                            /\ test_count' = parts.test_x
                            /\ train_dataset' = tr
                            /\ valid_dataset' = va
                            /\ train_steps' = st.train_steps
                            /\ valid_steps' = st.valid_steps

\* sklearn train_test_split(test_size = 0.2): ceil(0.2 * n) rows for validation
label_valid_count(n) == CeilDiv(n * SplitNum, SplitDen)

\* ImgLabelDataset.__init__(paths_training); `stratifiable` says whether the
\* label column admits the stratified split (sklearn raises otherwise)
ImgLabelDataset_init(keys_present, stratifiable) ==
    /\ d_pc = "new"
    /\ d_kind' = "label"
    /\ UNCHANGED <<n_images, n_targets, has_gpu, last_request, last_limit>>
    /\ LET imgs == make_image_dirs(n_images, 0)
           nv == label_valid_count(n_images)
       IN  IF ~keys_present
           THEN /\ ConstructorFails("keys", "MissingRequiredPathKey")
                /\ UNCHANGED <<num_examples, batch_size>>
           ELSE IF imgs.err # ""
           THEN /\ ConstructorFails("discover", imgs.err)
                /\ UNCHANGED <<num_examples, batch_size>>
           ELSE /\ num_examples' = imgs.num_examples
                /\ batch_size' = DefaultBatchSize
                /\ IF labels_mismatched(n_targets, n_images)
                   THEN ConstructorFails("discover", "CountMismatch")
                   ELSE IF ~stratifiable \/ nv >= n_images
                   THEN ConstructorFails("split", "SplitFailed")
                   ELSE LET tr == tf_dataset("train", n_images - nv, DefaultBatchSize)
                            va == tf_dataset("valid", nv, DefaultBatchSize)
                            st == calc_train_steps(tr, va, DefaultBatchSize)
                        IN  /\ d_pc' = "constructed" /\ d_err' = "" /\ d_stage' = ""
                            /\ train_count' = n_images - nv
                            /\ valid_count' = nv
                            /\ test_count' = 0
                            /\ train_dataset' = tr
                            /\ valid_dataset' = va
                            /\ train_steps' = st.train_steps
                            /\ valid_steps' = st.valid_steps

-----------------------------------------------------------------------------
(*                     Dataset.set_batch_size and helpers                  *)

calc_nearest_power_of_two_no_fallback(request, limit) ==
    [err |-> "", power_of_two |-> Pow2Ceil(request)]

\* calc_nearest_power_of_two(batch_size, limit): [err, power_of_two].
\* math.log2 raises for a request below 1.
calc_nearest_power_of_two(request, limit) ==
    IF request < 1 THEN [err |-> "MathDomainError", power_of_two |-> 0]
    ELSE LET up == Pow2Ceil(request)
             p == IF up > limit THEN Pow2Floor(request) ELSE up
         IN  IF p > limit
             THEN [err |-> "BatchSizeExceedsLimit", power_of_two |-> p]
             ELSE [err |-> "", power_of_two |-> p]

\* __set_batch_size: [err, batch_size]. With a GPU visible,
\* get_batch_max_batch_size_for_system_memory returns a name it never bound.
private_set_batch_size(request, limit, gpu, examples, current) ==
    LET p == calc_nearest_power_of_two(request, limit)
    IN  IF gpu THEN [err |-> "UnboundLocalError", batch_size |-> current]
        ELSE IF p.err # "" THEN [err |-> p.err, batch_size |-> current]
        ELSE [err |-> "", batch_size |-> Min2(p.power_of_two, examples)]

\* set_batch_size(batch_size) on a constructed dataset, the memory probe
\* answering `limit`
SetBatchSizeTo(request, limit) ==
    /\ d_pc = "constructed"
    /\ LET r == private_set_batch_size(request, limit, has_gpu, num_examples, batch_size)
           st == calc_train_steps(train_dataset, valid_dataset, r.batch_size)
       IN  /\ d_err' = r.err
           /\ batch_size' = r.batch_size
           /\ last_request' = request
           /\ last_limit' = limit
           /\ IF r.err = ""
              THEN train_steps' = st.train_steps /\ valid_steps' = st.valid_steps
              ELSE UNCHANGED <<train_steps, valid_steps>>
    /\ UNCHANGED <<d_pc, d_kind, n_images, n_targets, has_gpu, num_examples,
                   train_count, valid_count, test_count, train_dataset, valid_dataset,
                   d_stage>>

-----------------------------------------------------------------------------
(*                       InitializeModel.set_run_debug                     *)

\* the number of batches debug mode keeps (lines 76-77)
DebugBatches == 16

\* set_run_debug (lines 74-78) of an orchestrator built on this dataset with
\* run_debug=True: both assignments read self.dataset.train_dataset
set_run_debug ==
    /\ d_pc = "constructed"
    /\ train_dataset' = take(train_dataset, DebugBatches)
    /\ valid_dataset' = take(train_dataset', DebugBatches)
    /\ num_epochs' = 1
    /\ UNCHANGED <<d_pc, d_kind, n_images, n_targets, has_gpu, num_examples,
                   batch_size, train_count, valid_count, test_count, train_steps,
                   valid_steps, d_err, d_stage, last_request, last_limit>>
    /\ UNCHANGED <<t_pc, fresh_requested, ckpt_existed, hist_existed, train_fresh,
                   weights_loaded, fs, mc_best, run_no, epoch, history_metric,
                   backup_models, esc_i, esc_n, callback_order, esc_steps, t_err>>

-----------------------------------------------------------------------------
(*                      SpecData: the inputs and the machine               *)

\* largest directory listing enumerated (besides the 95 of the worked example)
MaxImages == 16
\* how far the number of targets may differ from the number of images
MaxSkew == 1
\* largest requested batch size
MaxRequest == 8
\* largest memory-derived maximum; the quotient of line 124 is a float, and
\* an integer power of two exceeds it iff it exceeds its integer part
MaxLimit == 8

ExampleSize == 95

ImageCounts == 0..MaxImages \cup {ExampleSize}
Requests == 0..MaxRequest
Limits == 0..MaxLimit \cup {128}

InitData ==
    /\ d_pc = "new" /\ d_kind = "none"
    /\ n_images \in ImageCounts
    /\ n_targets \in {n \in (n_images - MaxSkew)..(n_images + MaxSkew) : n >= 0}
    /\ has_gpu \in BOOLEAN
    /\ num_examples = 0 /\ batch_size = 0
    /\ train_count = 0 /\ valid_count = 0 /\ test_count = 0
    /\ train_dataset = NoDataset /\ valid_dataset = NoDataset
    /\ train_steps = 0 /\ valid_steps = 0
    /\ d_err = "" /\ d_stage = ""
    /\ last_request = -1 /\ last_limit = -1
    /\ ResolveIdle
    /\ TrainIdle
    /\ SplitIdle
    /\ ConstructIdle
    /\ OptIdle

ConstructMask == \E k \in BOOLEAN : ImgMaskDataset_init(k)
ConstructLabel == \E k \in BOOLEAN, st \in BOOLEAN : ImgLabelDataset_init(k, st)
set_batch_size == \E b \in Requests, lim \in Limits : SetBatchSizeTo(b, lim)
set_max_batch_size == \E lim \in Limits : SetBatchSizeTo(num_examples, lim)

NextData ==
    \/ ConstructMask /\ UNCHANGED <<resolveVars, trainVars, splitVars, constructVars, optVars>>
    \/ ConstructLabel /\ UNCHANGED <<resolveVars, trainVars, splitVars, constructVars, optVars>>
    \/ set_batch_size /\ UNCHANGED <<resolveVars, trainVars, splitVars, constructVars, optVars>>
    \/ set_max_batch_size /\ UNCHANGED <<resolveVars, trainVars, splitVars, constructVars, optVars>>
    \/ set_run_debug /\ UNCHANGED <<resolveVars, splitVars, constructVars, optVars>>

SpecData == InitData /\ [][NextData]_vars

-----------------------------------------------------------------------------
(*                        Properties of the dataset                        *)

\* a set_batch_size (or set_max_batch_size) call has just returned normally
BatchSizeWasSet == d_pc = "constructed" /\ last_request # -1 /\ d_err = ""

\* floor(r * n) for the ratio r = SplitNum / SplitDen
FloorRatio(n) == (n * SplitNum) \div SplitDen

\* C3 as stated: after every set_batch_size that does not fail, batch_size is
\* a power of two and is at most min(dataset size, memory-derived maximum).
C3_Original ==
    BatchSizeWasSet =>
        /\ IsPowerOfTwo(batch_size)
        /\ batch_size <= Min2(num_examples, last_limit)

\* C3 amended: after every set_batch_size that does not fail, batch_size is at
\* most min(dataset size, memory-derived maximum), and it is a power of two
\* unless the cap at the dataset size applied, in which case it equals the
\* dataset size.
C3_Amended ==
    BatchSizeWasSet =>
        /\ batch_size >= 1
        /\ batch_size <= Min2(num_examples, last_limit)
        /\ IsPowerOfTwo(batch_size) \/ batch_size = num_examples
        /\ batch_size < num_examples =>
              /\ IsPowerOfTwo(batch_size)
              /\ batch_size \in {Pow2Ceil(last_request), Pow2Floor(last_request)}

\* a request of 5 under a maximum of 7 fell back from 8 to 4
C3_Witness ==
    BatchSizeWasSet /\ last_request = 5 /\ last_limit = 7 /\ batch_size = 4

\* C4: after calc_train_steps, train_steps = ceil(train_count / batch_size)
\* and valid_steps = ceil(valid_count / batch_size), for every batch size.
C4_StepsAreCeil ==
    (d_pc = "constructed" /\ d_err = "") =>
        /\ train_steps = CeilDiv(train_count, batch_size)
        /\ valid_steps = CeilDiv(valid_count, batch_size)

\* C5: with at least one input and one target, discovery succeeds when the
\* counts are equal and the constructor fails with the count-mismatch error
\* when they differ, in mask mode and in label mode; no dataset with unequal
\* counts is constructed.
C5_CountMismatchDetected ==
    (d_pc # "new" /\ d_stage # "keys" /\ n_images >= 1 /\ n_targets >= 1) =>
        /\ n_images = n_targets => d_stage # "discover"
        /\ n_images # n_targets => (d_pc = "failed" /\ d_err = "CountMismatch")
        /\ d_pc = "constructed" => n_images = n_targets

\* C9: in every state of a constructed dataset, batch_size is at most the
\* total number of samples.
C9_BatchWithinDataset ==
    d_pc = "constructed" => batch_size <= num_examples

\* C10 as stated: the validation split has floor(r*N) samples and the test
\* split has floor(r * (N - floor(r*N))) samples.
C10_Original ==
    (d_pc = "constructed" /\ d_kind = "mask") =>
        /\ valid_count = FloorRatio(n_images)
        /\ test_count = FloorRatio(n_images - FloorRatio(n_images))

\* C10 amended: the validation split has floor(r*N) samples and the test
\* split, carved from the train portion left after validation, has the same
\* absolute number floor(r*N) of samples (r of the original total, not r of
\* the remaining portion); the train split keeps N - 2*floor(r*N).
C10_Amended ==
    (d_pc = "constructed" /\ d_kind = "mask") =>
        /\ valid_count = FloorRatio(n_images)
        /\ test_count = FloorRatio(n_images)
        /\ train_count = n_images - 2 * FloorRatio(n_images)
        /\ train_count + valid_count + test_count = n_images

\* a constructed mask dataset whose test split is not r of the remaining portion
C10_Witness ==
    /\ d_pc = "constructed" /\ d_kind = "mask"
    /\ test_count = valid_count
    /\ test_count # FloorRatio(n_images - FloorRatio(n_images))

\* debug mode has truncated the pipelines of the dataset
DebugModeSet == d_pc = "constructed" /\ train_dataset.take # -1

\* C16: when the request rounded up to a power of two exceeds the
\* memory-derived maximum, the call falls back to the next lower power of two
\* (half the rounded-up value) and fails with the batch-size-exceeds-limit
\* error only if that one exceeds the maximum too.
C16_FallbackToLowerPower ==
    (/\ d_pc = "constructed" /\ ~has_gpu
     /\ last_request >= 2
     /\ Pow2Ceil(last_request) > last_limit) =>
        LET half == Pow2Ceil(last_request) \div 2
        IN  IF half > last_limit
            THEN d_err = "BatchSizeExceedsLimit"
            ELSE d_err = "" /\ batch_size = Min2(half, num_examples)

\* C20: after a set_batch_size that does not fail, the pipelines are batched
\* with the current batch_size, and train_steps and valid_steps are the
\* numbers of batches the pipelines yield in one pass.
C20_StepsMatchPipelines ==
    (BatchSizeWasSet /\ ~DebugModeSet) =>
        /\ train_dataset.batch = batch_size
        /\ valid_dataset.batch = batch_size
        /\ train_steps = len_dataset(train_dataset)
        /\ valid_steps = len_dataset(valid_dataset)

-----------------------------------------------------------------------------
(*          prep_training_data.py: the split, element by element           *)

\* numpy's generator reduced to a linear congruential one, its multiplier
\* fixed by `generator`: the state after one draw. What the model keeps of
\* it: a draw is a function of the state.
next_state(x) == ((32 + generator) * x + 7) % 251

\* np.random.RandomState(seed), np.random.seed(seed): the state a seed puts
\* a generator in
RandomState(seed) == seed % 251

swap(seq, i, j) == [seq EXCEPT ![i] = seq[j], ![j] = seq[i]]

\* generator.shuffle(seq): Fisher-Yates from the last position down;
\* [perm, state] with the state the generator is left in
RECURSIVE fisher_yates(_, _, _)
fisher_yates(seq, i, x) ==
    IF i < 2 THEN [perm |-> seq, state |-> x]
    ELSE LET x1 == next_state(x)
             j == (x1 % i) + 1
         IN  fisher_yates(swap(seq, i, j), i - 1, x1)

\* numpy.arange(1, n + 1)
RECURSIVE arange(_)
arange(n) == IF n = 0 THEN <<>> ELSE Append(arange(n - 1), n)

\* generator.permutation(n) of the positions 1..n
permutation(x, n) == fisher_yates(arange(n), n, x)

\* arr[idx] for a sequence of positions
RECURSIVE take_rows(_, _)
take_rows(arr, idx) ==
    IF idx = <<>> THEN <<>> ELSE <<arr[Head(idx)]>> \o take_rows(arr, Tail(idx))

\* the absent random_state argument
None == -1

\* sklearn check_random_state: None is numpy's global generator, an int seeds
\* a generator of its own
check_random_state(random_state, global) ==
    IF random_state = None THEN global ELSE RandomState(random_state)

split_random_state_none(seed) == None

\* the random_state load_data hands to train_test_split (lines 296-301)
split_random_state(seed) == seed

\* sklearn train_test_split(arr, test_size = an absolute count, random_state):
\* the first test_size positions of the permutation are the test rows, the
\* others the train rows
train_test_split_rows(arr, test_size, random_state, global) ==
    LET n == Len(arr)
        p == permutation(check_random_state(random_state, global), n).perm
    IN  IF test_size <= 0 \/ test_size >= n
        THEN [err |-> "SplitFailed", train |-> <<>>, test |-> <<>>]
        ELSE [err |-> "", train |-> take_rows(arr, SubSeq(p, test_size + 1, n)),
              test |-> take_rows(arr, SubSeq(p, 1, test_size))]

\* load_data(images, masks) on the lists themselves
load_data_rows(images, masks, seed, global) ==
    LET size == split_size(Len(images))
        rs == split_random_state(seed)
        x1 == train_test_split_rows(images, size, rs, global)
        y1 == train_test_split_rows(masks, size, rs, global)
        size2 == test_size_second(Len(images), Len(x1.train))
        x2 == train_test_split_rows(x1.train, size2, rs, global)
        y2 == train_test_split_rows(y1.train, size2, rs, global)
    IN  IF x1.err # "" \/ y1.err # "" \/ x2.err # "" \/ y2.err # ""
        THEN [err |-> "SplitFailed", split |-> NoSplit]
        ELSE [err |-> "",
              split |-> [seed |-> seed, train_x |-> x2.train, train_y |-> y2.train,
                         valid_x |-> x1.test, valid_y |-> y1.test,
                         test_x |-> x2.test, test_y |-> y2.test]]

\* number of label classes; the label of row k of the label file is
\* k modulo this number
NumClasses == 2
label_of(row) == row % NumClasses

\* the rows of one class, in file order
RECURSIVE rows_of_class(_, _)
rows_of_class(rows, c) ==
    IF rows = <<>> THEN <<>>
    ELSE (IF label_of(Head(rows)) = c THEN <<Head(rows)>> ELSE <<>>)
         \o rows_of_class(Tail(rows), c)

\* the validation rows class c is asked for: its proportional share of
\* n_test, the classes in order taking the rows the floors leave over
class_share(rows, c, n_test) ==
    LET n == Len(rows)
        floor_of(k) == (Len(rows_of_class(rows, k)) * n_test) \div n
        floors == [k \in 0..(NumClasses - 1) |-> floor_of(k)]
        RECURSIVE total(_)
        total(k) == IF k < 0 THEN 0 ELSE floors[k] + total(k - 1)
        left_over == n_test - total(NumClasses - 1)
    IN  floors[c] + (IF c < left_over THEN 1 ELSE 0)

\* the stratified shuffle split: the one generator permutes each class in
\* turn, the first rows of each permuted class go to the test side;
\* [train, test, state] from class c on
RECURSIVE stratified_classes(_, _, _, _, _, _)
stratified_classes(rows, c, n_test, x, train, test) ==
    IF c = NumClasses THEN [train |-> train, test |-> test, state |-> x]
    ELSE LET members == rows_of_class(rows, c)
             p == permutation(x, Len(members))
             picked == take_rows(members, p.perm)
             share == class_share(rows, c, n_test)
         IN  stratified_classes(rows, c + 1, n_test, p.state,
                                train \o SubSeq(picked, share + 1, Len(picked)),
                                test \o SubSeq(picked, 1, share))

\* sklearn train_test_split(rows, test_size=0.2, random_state, stratify=label):
\* raises unless every class has two rows and each side has room for every
\* class; both sides are permuted once more at the end
train_test_split_stratified(rows, random_state, global) ==
    LET n == Len(rows)
        n_test == label_valid_count(n)
        by_class == stratified_classes(rows, 0, n_test,
                                       check_random_state(random_state, global), <<>>, <<>>)
        p_train == permutation(by_class.state, Len(by_class.train))
        p_test == permutation(p_train.state, Len(by_class.test))
    IN  IF \/ \E c \in 0..(NumClasses - 1) : Len(rows_of_class(rows, c)) < 2
           \/ n_test < NumClasses \/ n - n_test < NumClasses
        THEN [err |-> "SplitFailed", train |-> <<>>, test |-> <<>>]
        ELSE [err |-> "", train |-> take_rows(by_class.train, p_train.perm),
              test |-> take_rows(by_class.test, p_test.perm)]

\* the label column of a list of rows
RECURSIVE labels_of(_)
labels_of(rows) ==
    IF rows = <<>> THEN <<>> ELSE <<label_of(Head(rows))>> \o labels_of(Tail(rows))

\* train_val_split (lines 349-364) on the rows of the label file
train_val_split_rows(rows, seed, global) ==
    LET r == train_test_split_stratified(rows, split_random_state(seed), global)
    IN  IF r.err # "" THEN [err |-> r.err, split |-> NoSplit]
        ELSE [err |-> "",
              split |-> [seed |-> seed, train_x |-> r.train, train_y |-> labels_of(r.train),
                         valid_x |-> r.test, valid_y |-> labels_of(r.test),
                         test_x |-> <<>>, test_y |-> <<>>]]

shuffle_each_alone(xs, ys, x) ==
    LET a == permutation(x, Len(xs))
        b == permutation(a.state, Len(ys))
    IN  [err |-> "", xs |-> take_rows(xs, a.perm), ys |-> take_rows(ys, b.perm),
         state |-> b.state]

\* sklearn.utils.shuffle(xs, ys) without random_state: one permutation, drawn
\* from the global generator, indexes both lists
shuffle(xs, ys, x) ==
    LET r == permutation(x, Len(xs))
    IN  IF Len(xs) # Len(ys)
        THEN [err |-> "InconsistentLengths", xs |-> xs, ys |-> ys, state |-> x]
        ELSE [err |-> "", xs |-> take_rows(xs, r.perm), ys |-> take_rows(ys, r.perm),
              state |-> r.state]

\* tf.data.Dataset.from_tensor_slices((xs, ys)): the elements pair up by position
RECURSIVE from_tensor_slices(_, _)
from_tensor_slices(xs, ys) ==
    IF xs = <<>> \/ ys = <<>> THEN <<>>
    ELSE <<(<<Head(xs), Head(ys)>>)>> \o from_tensor_slices(Tail(xs), Tail(ys))

\* the sorted listing of a directory of n files: the file at index k is k
Listing(n) == arange(n)

\* Dataset.__init__ line 44: self.set_seed(42)
DefaultSeed == 42

\* a load_data call has returned `split`
RecordSplit(split) ==
    /\ prev_split' = last_split
    /\ last_split' = split

\* prep_data_img_labels with self.seed = seed and the global generator in
\* state `global`: load_data, the shuffle of the training lists, the pipelines
PrepWith(seed, global) ==
    LET r == load_data_rows(Listing(s_items), Listing(s_items), seed, global)
        sh == shuffle(r.split.train_x, r.split.train_y, global)
    IN  /\ s_calls' = s_calls + 1
        /\ IF r.err # ""
           THEN /\ s_err' = r.err /\ np_random' = global
                /\ UNCHANGED <<train_pairs, valid_pairs, test_pairs, last_split, prev_split>>
           ELSE /\ RecordSplit(r.split)
                /\ np_random' = sh.state
                /\ IF sh.err # ""
                   THEN /\ s_err' = sh.err
                        /\ UNCHANGED <<train_pairs, valid_pairs, test_pairs>>
                   ELSE /\ s_err' = ""
                        /\ train_pairs' = from_tensor_slices(sh.xs, sh.ys)
                        /\ valid_pairs' = from_tensor_slices(r.split.valid_x, r.split.valid_y)
                        /\ test_pairs' = from_tensor_slices(r.split.test_x, r.split.test_y)

\* ImgMaskDataset.__init__ over two listings of s_items files each:
\* set_seed(42), then prep_data_img_labels
ImgMaskDataset_split ==
    /\ s_pc = "new"
    /\ s_kind' = "mask"
    /\ s_seed' = DefaultSeed
    /\ PrepWith(DefaultSeed, RandomState(DefaultSeed))
    /\ s_pc' = IF s_err' = "" THEN "constructed" ELSE "failed"
    /\ UNCHANGED <<s_items, generator>>

\* set_seed(seed) (lines 231-236)
SetSeedTo(seed) ==
    /\ s_pc = "constructed"
    /\ s_seed' = seed
    /\ np_random' = RandomState(seed)
    /\ s_err' = ""
    /\ UNCHANGED <<s_pc, s_kind, s_items, generator, train_pairs, valid_pairs,
                   test_pairs, last_split, prev_split, s_calls>>

\* largest number of load_data calls followed in one behaviour
MaxCalls == 3

\* prep_data_img_labels() called again on the constructed dataset
prep_data_img_labels ==
    /\ s_pc = "constructed" /\ s_kind = "mask"
    /\ s_calls < MaxCalls
    /\ PrepWith(s_seed, np_random)
    /\ UNCHANGED <<s_pc, s_kind, s_items, generator, s_seed>>

\* load_data(self.images, self.masks) called on the constructed dataset
load_data_call ==
    /\ s_pc = "constructed" /\ s_kind = "mask"
    /\ s_calls < MaxCalls
    /\ LET r == load_data_rows(Listing(s_items), Listing(s_items), s_seed, np_random)
       IN  /\ s_err' = r.err
           /\ IF r.err = "" THEN RecordSplit(r.split)
              ELSE UNCHANGED <<last_split, prev_split>>
    /\ s_calls' = s_calls + 1
    /\ UNCHANGED <<s_pc, s_kind, s_items, generator, s_seed, np_random, train_pairs,
                   valid_pairs, test_pairs>>

\* train_val_split with self.seed = seed: the two data frames the loaders
\* are made from
SplitLabelsWith(seed) ==
    LET r == train_val_split_rows(Listing(s_items), seed, np_random)
    IN  /\ s_calls' = s_calls + 1
        /\ s_err' = r.err
        /\ IF r.err # ""
           THEN UNCHANGED <<train_pairs, valid_pairs, test_pairs, last_split, prev_split>>
           ELSE /\ RecordSplit(r.split)
                /\ train_pairs' = from_tensor_slices(r.split.train_x, r.split.train_y)
                /\ valid_pairs' = from_tensor_slices(r.split.valid_x, r.split.valid_y)
                /\ test_pairs' = <<>>

\* ImgLabelDataset.__init__ over s_items images and as many label rows:
\* set_seed(42), then train_val_split
ImgLabelDataset_split ==
    /\ s_pc = "new"
    /\ s_kind' = "label"
    /\ s_seed' = DefaultSeed
    /\ np_random' = RandomState(DefaultSeed)
    /\ SplitLabelsWith(DefaultSeed)
    /\ s_pc' = IF s_err' = "" THEN "constructed" ELSE "failed"
    /\ UNCHANGED <<s_items, generator>>

\* train_val_split() called again on the constructed dataset
train_val_split ==
    /\ s_pc = "constructed" /\ s_kind = "label"
    /\ s_calls < MaxCalls
    /\ SplitLabelsWith(s_seed)
    /\ UNCHANGED <<s_pc, s_kind, s_items, generator, s_seed, np_random>>

\* largest listing, largest seed and number of generators enumerated
MaxItems == 10
MaxSeed == 2
MaxGenerator == 3

Seeds == 0..MaxSeed \cup {DefaultSeed}

InitSplit ==
    /\ s_pc = "new" /\ s_kind = "none"
    /\ s_items \in 0..MaxItems
    /\ generator \in 1..MaxGenerator
    /\ s_seed = 0 /\ np_random = 0
    /\ train_pairs = <<>> /\ valid_pairs = <<>> /\ test_pairs = <<>>
    /\ last_split = NoSplit /\ prev_split = NoSplit
    /\ s_calls = 0 /\ s_err = ""
    /\ ResolveIdle
    /\ DataIdle
    /\ TrainIdle
    /\ ConstructIdle
    /\ OptIdle

set_seed == \E seed \in Seeds : SetSeedTo(seed)

NextSplit ==
    \/ ImgMaskDataset_split /\ UNCHANGED <<resolveVars, dataVars, trainVars, constructVars, optVars>>
    \/ set_seed /\ UNCHANGED <<resolveVars, dataVars, trainVars, constructVars, optVars>>
    \/ prep_data_img_labels /\ UNCHANGED <<resolveVars, dataVars, trainVars, constructVars, optVars>>
    \/ load_data_call /\ UNCHANGED <<resolveVars, dataVars, trainVars, constructVars, optVars>>
    \/ ImgLabelDataset_split /\ UNCHANGED <<resolveVars, dataVars, trainVars, constructVars, optVars>>
    \/ train_val_split /\ UNCHANGED <<resolveVars, dataVars, trainVars, constructVars, optVars>>

SpecSplit == InitSplit /\ [][NextSplit]_vars

-----------------------------------------------------------------------------
(*                         Properties of the split                         *)

\* the images and the masks of a sequence of pairs
ImagesOf(pairs) == {pairs[k][1] : k \in 1..Len(pairs)}
MasksOf(pairs) == {pairs[k][2] : k \in 1..Len(pairs)}

\* every pair is a discovered one: image and mask stood at the same index
Discovered(pairs) ==
    \A k \in 1..Len(pairs) : pairs[k][1] = pairs[k][2] /\ pairs[k][1] \in 1..s_items

\* C14: for equal image and mask counts the train, validation and test
\* subsets are pairwise disjoint and each of their pairs, the shuffled
\* training pairs included, is an image with the mask of the same index.
C14_DisjointDiscoveredPairs ==
    (s_pc = "constructed" /\ s_kind = "mask") =>
        /\ ImagesOf(train_pairs) \cap ImagesOf(valid_pairs) = {}
        /\ ImagesOf(train_pairs) \cap ImagesOf(test_pairs) = {}
        /\ ImagesOf(valid_pairs) \cap ImagesOf(test_pairs) = {}
        /\ MasksOf(train_pairs) \cap MasksOf(valid_pairs) = {}
        /\ MasksOf(train_pairs) \cap MasksOf(test_pairs) = {}
        /\ MasksOf(valid_pairs) \cap MasksOf(test_pairs) = {}
        /\ Discovered(train_pairs) /\ Discovered(valid_pairs) /\ Discovered(test_pairs)
        /\ Discovered(from_tensor_slices(last_split.train_x, last_split.train_y))

\* the shuffle has reordered a training subset of three or more pairs, beside
\* two validation and two test pairs
C14_Witness ==
    /\ s_pc = "constructed" /\ s_kind = "mask" /\ s_err = ""
    /\ Len(train_pairs) >= 3 /\ Len(valid_pairs) = 2 /\ Len(test_pairs) = 2
    /\ train_pairs # from_tensor_slices(last_split.train_x, last_split.train_y)
    /\ ImagesOf(train_pairs) = {last_split.train_x[k] : k \in 1..Len(last_split.train_x)}

\* C15: two load_data calls on the same listings with the same seed return
\* the same train, validation and test lists.
C15_SplitReproducible ==
    (prev_split # NoSplit /\ last_split.seed = prev_split.seed) => last_split = prev_split

\* the split was repeated with the same seed after the global generator had
\* moved on, and a split with another seed had come out differently
C15_Witness ==
    /\ prev_split # NoSplit /\ last_split.seed = prev_split.seed
    /\ Len(last_split.train_x) >= 3
    /\ np_random # RandomState(s_seed)
    /\ s_calls = MaxCalls

-----------------------------------------------------------------------------
(*                 model_initializer.py: files and their paths             *)

\* str.split as the tuple of its segments
RECURSIVE split(_, _)
split(s, sep) ==
    LET i == find(s, sep)
    IN  IF i = 0 THEN <<s>>
        ELSE <<SubSeq(s, 1, i - 1)>> \o split(SubSeq(s, i + Len(sep), Len(s)), sep)

\* str(i) for the small loop indices of the escape procedure
str(i) == IF i < 10 THEN SubSeq("0123456789", i + 1, i + 1)
          ELSE SubSeq("0123456789", (i \div 10) + 1, (i \div 10) + 1)
               \o SubSeq("0123456789", (i % 10) + 1, (i % 10) + 1)

\* the arguments the orchestrator of SpecTrain is constructed with
ModelPathTop == "out"
TrainModelName == "unet"

\* self.model_path (line 48) and the two canonical files (lines 258-259)
model_path == ModelPathTop \o "/" \o TrainModelName
trained_model_file == model_path \o "/trained_model_" \o lower(TrainModelName) \o ".h5"
history_file == model_path \o "/training_history_" \o lower(TrainModelName) \o ".csv"

\* the name make_backup_file composes (lines 336-337)
backup_file_name(filename, i) ==
    LET extension == "." \o split_last(filename, ".")
        parts == split(filename, extension)
    IN  parts[Len(parts) - 1] \o "_backup" \o str(i) \o extension

\* largest n_times explored
MaxAttempts == 2

\* make_backup_file's names for the loop indices 1..MaxAttempts
backup_model_file == [i \in 1..MaxAttempts |-> backup_file_name(trained_model_file, i)]
backup_history_file == [i \in 1..MaxAttempts |-> backup_file_name(history_file, i)]

\* a file that does not exist, and a file holding `data`
Absent == [exists |-> FALSE, data |-> <<>>]
FileOf(data) == [exists |-> TRUE, data |-> data]

\* a row of the history file: the run and epoch that wrote it (run 0: written
\* before this orchestrator was constructed) and whether the logs it was
\* written from carried epoch_time
Row(r, e, logs) == [run |-> r, epoch |-> e, epoch_time |-> "epoch_time" \in logs]

\* os_utils.delete(path): the file is gone afterwards, present or not before
delete(files, path) == [files EXCEPT ![path] = Absent]

\* os_utils.make_new_dirs(path, clean_subdirs): with clean_subdirs the
\* directory may be emptied (`emptied`), without it its files are kept
make_new_dirs(files, clean_subdirs, emptied) ==
    IF clean_subdirs /\ emptied THEN [q \in DOMAIN files |-> Absent] ELSE files

\* shutil.copy(src, dst): [err, files]
copy(files, src, dst) ==
    IF ~files[src].exists THEN [err |-> "FileNotFoundError", files |-> files]
    ELSE IF src = dst THEN [err |-> "SameFileError", files |-> files]
    ELSE [err |-> "", files |-> [files EXCEPT ![dst] = files[src]]]

-----------------------------------------------------------------------------
(*                      InitializeModel.make_callbacks                     *)

\* set_default_optimization_params (line 253): 1e-3
DefaultLearningRate == 10

\* set_optimizer(learning_rate='') (lines 291-295): the learning rate of the
\* Adam instance it stores; the default argument '' is falsy, as is 0
set_optimizer(learning_rate_arg, base) ==
    IF learning_rate_arg = 0 THEN base ELSE learning_rate_arg

make_callbacks_checkpoint_only(fresh, model_exists, csv_exists) ==
    [train_fresh |-> fresh \/ ~model_exists, load_weights |-> ~(fresh \/ ~model_exists)]

\* lines 260-272: the final train_fresh and whether load_weights is called
make_callbacks(fresh, model_exists, csv_exists) ==
    LET f == fresh \/ ~model_exists \/ ~csv_exists
    IN  [train_fresh |-> f, load_weights |-> ~f]

\* InitializeModel.__init__ from make_new_dirs on, for a name that resolves;
\* `emptied`: see make_new_dirs; `loadable`: load_weights accepts the file
InitializeModel_init(emptied, loadable) ==
    /\ t_pc = "new"
    /\ LET fs1 == make_new_dirs(fs, fresh_requested, emptied)
           cb == make_callbacks(fresh_requested, fs1[trained_model_file].exists,
                                fs1[history_file].exists)
       IN  /\ train_fresh' = cb.train_fresh
           /\ fs' = IF cb.train_fresh
                    THEN delete(delete(fs1, trained_model_file), history_file)
                    ELSE fs1
           /\ IF cb.load_weights /\ ~loadable
              THEN weights_loaded' = "failed" /\ t_pc' = "failed"
                   /\ t_err' = "LoadWeightsFailed"
              ELSE weights_loaded' = (IF cb.load_weights THEN "yes" ELSE "no")
                   /\ t_pc' = "ready" /\ t_err' = ""
    /\ mc_best' = -1
    /\ optimizer' = IF t_pc' = "ready" THEN set_optimizer(0, learning_rate_base)
                    ELSE optimizer
    /\ UNCHANGED <<learning_rate_base, learning_rate, compiled_rate>>
    /\ UNCHANGED <<fresh_requested, ckpt_existed, hist_existed, run_no, epoch,
                   num_epochs, history_metric, backup_models, esc_i, esc_n, callback_order, esc_steps>>

-----------------------------------------------------------------------------
(*                 InitializeModel.run_model and its callbacks              *)

\* largest number of run_model calls followed in one behaviour
MaxRuns == 3
\* largest epoch budget (self.num_epochs) explored
MaxEpochs == 1
\* validation-loss levels 0..MaxLoss and metric levels 0..MaxMetric (level 0
\* is the metric value 0.0)
MaxLoss == 1
MaxMetric == 2

improved_or_equal(val_loss, best) == best = -1 \/ val_loss <= best

\* ModelCheckpoint(save_best_only=True): the monitored val_loss improved
improved(val_loss, best) == best = -1 \/ val_loss < best

\* what ModelCheckpoint saves: the run and epoch whose weights it holds
\* (run 0: written before this orchestrator was constructed)
Checkpoint(r, e) == [run |-> r, epoch |-> e]

callbacks_logger_first ==
    <<"ModelCheckpoint", "ReduceLROnPlateau", "CSVLogger", "TimingCallback",
      "EarlyStopping">>

\* self.callbacks (lines 276-282)
callbacks ==
    <<"ModelCheckpoint", "ReduceLROnPlateau", "TimingCallback", "CSVLogger",
      "EarlyStopping">>

\* the keys of the logs dictionary fit hands to the callbacks at an epoch end
EpochLogs == {"loss", "val_loss", "dice_coef", "accuracy"}

\* on_epoch_end of one callback on st = [files, logs, order]: ModelCheckpoint
\* saves on improvement, TimingCallback (lines 395-397) adds epoch_time to
\* the logs, CSVLogger appends the row of the logs it is given
callback_on_epoch_end(name, st, r, e, val_loss, best) ==
    LET ran == [st EXCEPT !.order = Append(st.order, name)]
    IN  IF name = "ModelCheckpoint" /\ improved(val_loss, best)
        THEN [ran EXCEPT !.files[trained_model_file] = FileOf(<<Checkpoint(r, e)>>)]
        ELSE IF name = "TimingCallback"
        THEN [ran EXCEPT !.logs = st.logs \cup {"epoch_time"}]
        ELSE IF name = "CSVLogger"
        THEN [ran EXCEPT !.files[history_file] =
                 FileOf(st.files[history_file].data \o <<Row(r, e, st.logs)>>)]
        ELSE ran

\* the callback list runs in list order, each callback seeing what the
\* earlier ones left
RECURSIVE run_callbacks(_, _, _, _, _, _)
run_callbacks(k, st, r, e, val_loss, best) ==
    IF k > Len(callbacks) THEN st
    ELSE run_callbacks(k + 1, callback_on_epoch_end(callbacks[k], st, r, e, val_loss, best),
                       r, e, val_loss, best)

\* one epoch end: [files, logs, order] after the whole list
epoch_end_files(files, r, e, val_loss, best) ==
    run_callbacks(1, [files |-> files, logs |-> EpochLogs, order |-> <<>>],
                  r, e, val_loss, best)

\* run_model is entered: compile with self.optimizer (line 303), then fit
\* starts its first epoch
run_model ==
    /\ t_pc \in {"ready", "escaped"}
    /\ run_no < MaxRuns
    /\ t_pc' = "fit" /\ run_no' = run_no + 1 /\ epoch' = 0 /\ t_err' = ""
    /\ compiled_rate' = optimizer
    /\ UNCHANGED <<learning_rate_base, learning_rate, optimizer>>
    /\ UNCHANGED <<fresh_requested, ckpt_existed, hist_existed, train_fresh,
                   weights_loaded, fs, mc_best, num_epochs, history_metric,
                   backup_models, esc_i, esc_n, callback_order, esc_steps>>

\* backup_models[key] = record on a dict kept in insertion order: a key that
\* is present keeps its place and takes the new record
dict_set(records, rec) ==
    IF \E k \in 1..Len(records) : records[k].key = rec.key
    THEN [k \in 1..Len(records) |-> IF records[k].key = rec.key THEN rec ELSE records[k]]
    ELSE Append(records, rec)

attempt_record_same_key(i, metric) ==
    [key |-> 1,
     model_file |-> backup_model_file[i],
     history_file |-> backup_history_file[i],
     metric |-> metric]

\* the record try_bypass_local_minimum stores for attempt i (line 329)
attempt_record(i, metric) ==
    [key |-> i,
     model_file |-> backup_model_file[i],
     history_file |-> backup_history_file[i],
     metric |-> metric]

\* one epoch of fit ends with validation loss `val_loss` and metric `dice`;
\* after the last epoch run_model returns to its caller
on_epoch_end(val_loss, dice) ==
    /\ t_pc \in {"fit", "esc_fit"}
    /\ epoch < num_epochs
    /\ LET st == epoch_end_files(fs, run_no, epoch + 1, val_loss, mc_best)
       IN  fs' = st.files /\ callback_order' = st.order
    /\ mc_best' = IF improved(val_loss, mc_best) THEN val_loss ELSE mc_best
    /\ epoch' = epoch + 1
    /\ IF epoch + 1 < num_epochs
       THEN UNCHANGED <<t_pc, history_metric, backup_models, esc_i, esc_steps>>
       ELSE /\ history_metric' = dice
            /\ IF t_pc = "fit"
               THEN t_pc' = "ready" /\ UNCHANGED <<backup_models, esc_i, esc_steps>>
               ELSE /\ t_pc' = "esc_loop"
                    /\ backup_models' = dict_set(backup_models, attempt_record(esc_i, dice))
                    /\ esc_steps' = Append(esc_steps, "record")
                    /\ esc_i' = esc_i + 1
    /\ UNCHANGED <<fresh_requested, ckpt_existed, hist_existed, train_fresh,
                   weights_loaded, run_no, num_epochs, esc_n, t_err>>

-----------------------------------------------------------------------------
(*                 InitializeModel.try_bypass_local_minimum                *)

\* lines 321-322: the record of attempt 0; get_final_epoch_coeff needs
\* self.history, which only run_model sets
try_bypass_local_minimum(n) ==
    /\ t_pc \in {"ready", "escaped"}
    /\ run_no + n <= MaxRuns
    /\ IF history_metric = -1
       THEN /\ t_err' = "AttributeError"
            /\ UNCHANGED <<t_pc, backup_models, esc_i, esc_n>>
       ELSE /\ t_err' = ""
            /\ t_pc' = "esc_loop"
            /\ backup_models' = <<[key |-> 0, model_file |-> trained_model_file,
                                   history_file |-> history_file,
                                   metric |-> history_metric]>>
            /\ esc_i' = 1
            /\ esc_n' = n
    /\ esc_steps' = <<>>
    /\ UNCHANGED <<fresh_requested, ckpt_existed, hist_existed, train_fresh,
                   weights_loaded, fs, mc_best, run_no, epoch, num_epochs,
                   history_metric, callback_order>>

\* lines 325-328: both backups, the optimizer reset, and run_model is entered
escape_attempt ==
    /\ t_pc = "esc_loop"
    /\ esc_i <= esc_n
    /\ LET c1 == copy(fs, trained_model_file, backup_model_file[esc_i])
           c2 == copy(c1.files, history_file, backup_history_file[esc_i])
       IN  IF c1.err # ""
           THEN t_pc' = "ready" /\ t_err' = c1.err /\ fs' = fs
                /\ esc_steps' = <<>>
                /\ UNCHANGED <<run_no, epoch>>
           ELSE IF c2.err # ""
           THEN t_pc' = "ready" /\ t_err' = c2.err /\ fs' = c1.files
                /\ esc_steps' = <<"make_backup_file">>
                /\ UNCHANGED <<run_no, epoch>>
           ELSE t_pc' = "esc_fit" /\ t_err' = "" /\ fs' = c2.files
                /\ esc_steps' = <<"make_backup_file", "make_backup_file",
                                  "set_optimizer", "run_model">>
                /\ run_no' = run_no + 1 /\ epoch' = 0
    /\ IF t_pc' = "esc_fit"
       THEN /\ optimizer' = set_optimizer(0, learning_rate_base)
            /\ compiled_rate' = optimizer'
       ELSE UNCHANGED <<optimizer, compiled_rate>>
    /\ UNCHANGED <<learning_rate_base, learning_rate>>
    /\ UNCHANGED <<fresh_requested, ckpt_existed, hist_existed, train_fresh,
                   weights_loaded, mc_best, num_epochs, history_metric,
                   backup_models, esc_i, esc_n, callback_order>>

\* the loop of pick_best_model (lines 348-355) from record k on; -1 stands
\* for the empty best_model
RECURSIVE pick_loop(_, _, _, _)
pick_loop(records, k, best_acc, best_model) ==
    IF k > Len(records) THEN best_model
    ELSE LET accuracy == records[k].metric
         IN  IF best_acc > 0
             THEN pick_loop(records, k + 1, accuracy, best_model)
             ELSE IF accuracy > best_acc
             THEN pick_loop(records, k + 1, best_acc, records[k].key)
             ELSE pick_loop(records, k + 1, best_acc, best_model)

\* the record stored under a key
record_of(records, key) == records[CHOOSE k \in 1..Len(records) : records[k].key = key]

\* pick_best_model(backup_models), called when the loop is over (line 332)
pick_best_model ==
    /\ t_pc = "esc_loop"
    /\ esc_i > esc_n
    /\ LET best_model == pick_loop(backup_models, 1, 0, -1)
           best == record_of(backup_models, best_model)
           c1 == copy(fs, best.model_file, trained_model_file)
           c2 == copy(c1.files, best.history_file, history_file)
       IN  IF best_model = -1
           THEN fs' = fs /\ t_err' = ""
           ELSE IF c1.err # ""
           THEN fs' = fs /\ t_err' = c1.err
           ELSE fs' = c2.files /\ t_err' = c2.err
    /\ t_pc' = "escaped"
    /\ UNCHANGED <<fresh_requested, ckpt_existed, hist_existed, train_fresh,
                   weights_loaded, mc_best, run_no, epoch, num_epochs, history_metric,
                   backup_models, esc_i, esc_n, callback_order, esc_steps>>

-----------------------------------------------------------------------------
(*                  InitializeModel.set_optimization_params                *)

\* line 42
valid_opt_params == {"learning_rate", "num_epochs"}

\* the loop of lines 98-103 over the items of opt_params, in their order, on
\* the attributes attrs = [learning_rate, num_epochs]: setattr(self, key, value)
\* for an allow-listed key, a printed notice for any other
RECURSIVE setattr_loop(_, _)
setattr_loop(attrs, items) ==
    IF items = <<>> THEN attrs
    ELSE LET key == Head(items)[1]
             value == Head(items)[2]
         IN  IF key \in valid_opt_params
             THEN setattr_loop([attrs EXCEPT ![key] = value], Tail(items))
             ELSE setattr_loop(attrs, Tail(items))

\* set_optimization_params(opt_params) on a constructed orchestrator that is
\* not inside run_model
set_optimization_params(opt_params) ==
    /\ t_pc \in {"ready", "escaped"}
    /\ LET attrs == setattr_loop([learning_rate |-> learning_rate,
                                  num_epochs |-> num_epochs], opt_params)
       IN  /\ learning_rate' = attrs.learning_rate
           /\ num_epochs' = attrs.num_epochs
    /\ UNCHANGED <<learning_rate_base, optimizer, compiled_rate>>
    /\ UNCHANGED <<t_pc, fresh_requested, ckpt_existed, hist_existed, train_fresh,
                   weights_loaded, fs, mc_best, run_no, epoch, history_metric,
                   backup_models, esc_i, esc_n, callback_order, esc_steps, t_err>>

-----------------------------------------------------------------------------
(*                     SpecTrain: the inputs and the machine               *)

ValLosses == 0..MaxLoss
Metrics == 0..MaxMetric

\* every path the orchestrator may touch
AllPaths ==
    {trained_model_file, history_file}
    \cup {backup_model_file[i] : i \in 1..MaxAttempts}
    \cup {backup_history_file[i] : i \in 1..MaxAttempts}

InitTrain ==
    /\ t_pc = "new"
    /\ fresh_requested \in BOOLEAN
    /\ ckpt_existed \in BOOLEAN
    /\ hist_existed \in BOOLEAN
    /\ fs = [q \in AllPaths |->
                IF q = trained_model_file /\ ckpt_existed THEN FileOf(<<Checkpoint(0, 1)>>)
                ELSE IF q = history_file /\ hist_existed
                THEN FileOf(<<Row(0, 1, {"epoch_time"})>>)
                ELSE Absent]
    /\ train_fresh = fresh_requested
    /\ weights_loaded = "no"
    /\ mc_best = -1 /\ run_no = 0 /\ epoch = 0
    /\ num_epochs \in 1..MaxEpochs
    /\ history_metric = -1 /\ backup_models = <<>>
    /\ esc_i = 0 /\ esc_n = 0 /\ callback_order = <<>> /\ esc_steps = <<>>
    /\ t_err = ""
    /\ ResolveIdle
    /\ DataIdle
    /\ SplitIdle
    /\ ConstructIdle
    /\ learning_rate_base = DefaultLearningRate /\ learning_rate = NoRate
    /\ optimizer = NoRate /\ compiled_rate = NoRate

Construct == \E emptied \in BOOLEAN, loadable \in BOOLEAN : InitializeModel_init(emptied, loadable)
EpochEnd == \E v \in ValLosses, m \in Metrics : on_epoch_end(v, m)
Escape == \E n \in 0..MaxAttempts : try_bypass_local_minimum(n)

NextTrain ==
    \/ Construct /\ UNCHANGED <<resolveVars, dataVars, splitVars, constructVars>>
    \/ run_model /\ UNCHANGED <<resolveVars, dataVars, splitVars, constructVars>>
    \/ EpochEnd /\ UNCHANGED <<resolveVars, dataVars, splitVars, constructVars, optVars>>
    \/ Escape /\ UNCHANGED <<resolveVars, dataVars, splitVars, constructVars, optVars>>
    \/ escape_attempt /\ UNCHANGED <<resolveVars, dataVars, splitVars, constructVars>>
    \/ pick_best_model /\ UNCHANGED <<resolveVars, dataVars, splitVars, constructVars, optVars>>

SpecTrain == InitTrain /\ [][NextTrain]_vars

-----------------------------------------------------------------------------
(*              Properties of the orchestrator and the escape              *)

\* the largest metric among the records
BestMetric == CHOOSE m \in {backup_models[k].metric : k \in 1..Len(backup_models)} :
                 \A k \in 1..Len(backup_models) : backup_models[k].metric <= m

\* C1: when the escape has finished, the canonical checkpoint and history
\* files hold what the files of a record with the highest recorded metric
\* hold, whatever the order of the metrics.
C1_BestRecordRestored ==
    t_pc = "escaped" =>
        \E k \in 1..Len(backup_models) :
            /\ backup_models[k].metric = BestMetric
            /\ fs[trained_model_file] = fs[backup_models[k].model_file]
            /\ fs[history_file] = fs[backup_models[k].history_file]

\* C2: weights are loaded iff fresh training was not requested and both files
\* existed; otherwise the run is fresh, nothing is loaded and neither file
\* exists when construction finishes.
C2_ResumeOrFresh ==
    t_pc # "new" =>
        /\ (weights_loaded # "no") <=> (~fresh_requested /\ ckpt_existed /\ hist_existed)
        /\ (fresh_requested \/ ~ckpt_existed \/ ~hist_existed) =>
              /\ train_fresh
              /\ weights_loaded = "no"
              /\ (t_pc = "ready" /\ run_no = 0) =>
                    /\ ~fs[trained_model_file].exists
                    /\ ~fs[history_file].exists

\* a lone history file (no checkpoint) was deleted by a construction that did
\* not ask for fresh training
C2_Witness ==
    /\ t_pc = "ready" /\ run_no = 0
    /\ ~fresh_requested /\ ~ckpt_existed /\ hist_existed
    /\ train_fresh /\ weights_loaded = "no"
    /\ ~fs[history_file].exists

\* an epoch of fit ends and the checkpoint callback sees an improvement
ImprovingEpochStep ==
    /\ t_pc \in {"fit", "esc_fit"}
    /\ epoch' = epoch + 1
    /\ mc_best' # mc_best

\* pick_best_model returns
RestoreStep == t_pc = "esc_loop" /\ t_pc' = "escaped"

\* C11 (as stated): once the orchestrator is constructed, the content of the
\* canonical checkpoint file changes only in a step that is an epoch end whose
\* validation loss improves on the best seen so far.
C11_Original ==
    [][(t_pc # "new" /\ fs'[trained_model_file] # fs[trained_model_file])
          => ImprovingEpochStep]_vars

\* C11 (amended): once the orchestrator is constructed, the content of the
\* canonical checkpoint file changes only at an improving epoch end or when
\* pick_best_model restores the selected record at the end of an escape.
C11_Amended ==
    [][(t_pc # "new" /\ fs'[trained_model_file] # fs[trained_model_file])
          => (ImprovingEpochStep \/ RestoreStep)]_vars

\* the run of attempt 1 has overwritten the checkpoint (backup 2 holds what it
\* wrote), and the escape has put backup 1, taken before that run, back in
\* its place
C11_Witness ==
    /\ t_pc = "escaped" /\ esc_n = 2 /\ t_err = ""
    /\ fs[backup_model_file[1]].exists /\ fs[backup_model_file[2]].exists
    /\ fs[backup_model_file[2]].data[1].run > fs[backup_model_file[1]].data[1].run
    /\ fs[trained_model_file] = fs[backup_model_file[1]]

\* the history files: the canonical one and its backups
HistoryPaths == {history_file} \cup {backup_history_file[i] : i \in 1..MaxAttempts}

\* C12: at every epoch end the callbacks run in the order checkpoint,
\* learning-rate adjustment, timing recorder, history append, early-stop
\* check, and every row this orchestrator appended to the history file (or
\* that was copied to a backup of it) carries epoch_time.
C12_TimingBeforeLogger ==
    /\ callback_order \in {<<>>, <<"ModelCheckpoint", "ReduceLROnPlateau",
                                   "TimingCallback", "CSVLogger", "EarlyStopping">>}
    /\ \A q \in HistoryPaths : \A k \in 1..Len(fs[q].data) :
           fs[q].data[k].run >= 1 => fs[q].data[k].epoch_time

\* two runs have appended their rows to the history file
C12_Witness ==
    /\ callback_order # <<>>
    /\ Len(fs[history_file].data) >= 2
    /\ fs[history_file].data[Len(fs[history_file].data)].run = 2
    /\ fs[history_file].data[Len(fs[history_file].data)].epoch_time

\* C17: an escape with n attempts ends with exactly n+1 records, attempt 0
\* and the attempts 1..n in order; attempt i has backed the canonical files
\* up under suffix _backup<i> before its run starts, and its steps are taken in
\* the order backup, backup, optimizer reset, run, record.
C17_RecordsAndStepOrder ==
    /\ t_pc = "escaped" =>
          /\ Len(backup_models) = esc_n + 1
          /\ \A k \in 1..(esc_n + 1) : backup_models[k].key = k - 1
          /\ \A i \in 1..esc_n :
                /\ backup_models[i + 1].model_file
                      = model_path \o "/trained_model_unet_backup" \o str(i) \o ".h5"
                /\ backup_models[i + 1].history_file
                      = model_path \o "/training_history_unet_backup" \o str(i) \o ".csv"
          /\ esc_n >= 1 => esc_steps = <<"make_backup_file", "make_backup_file",
                                          "set_optimizer", "run_model", "record">>
    /\ (t_pc = "esc_fit" /\ epoch = 0) =>
          /\ esc_steps = <<"make_backup_file", "make_backup_file", "set_optimizer",
                           "run_model">>
          /\ Len(backup_models) = esc_i
          /\ fs[backup_model_file[esc_i]] = fs[trained_model_file]
          /\ fs[backup_history_file[esc_i]] = fs[history_file]
          /\ fs[trained_model_file].exists /\ fs[history_file].exists

\* an escape with two attempts has ended with its three records
C17_Witness ==
    /\ t_pc = "escaped" /\ esc_n = 2 /\ Len(backup_models) = 3
    /\ backup_models[3].key = 2
    /\ fs[backup_models[3].model_file].exists

\* the run_model call whose final-epoch metric record k stores: attempt k-1
\* of the escape that has just run its esc_n attempts
RunOfRecord(k) == run_no - esc_n + (k - 1)

\* C18: when the records of an escape are complete, the history file of every
\* record ends with the last epoch of the run whose metric the record stores
\* (the record's files are those of the end of that run).
C18_RecordFilesOfSameRun ==
    (t_pc = "esc_loop" /\ esc_i > esc_n) =>
        \A k \in 1..Len(backup_models) :
            LET h == fs[backup_models[k].history_file].data
            IN  /\ h # <<>>
                /\ h[Len(h)].run = RunOfRecord(k)

\* C19: when pick_best_model selects the record of attempt 0, whose files
\* are the canonical paths themselves, it returns without an exception and
\* leaves the canonical checkpoint and history files as they were.
C19_OriginalSelectedCompletes ==
    [][(RestoreStep /\ pick_loop(backup_models, 1, 0, -1) = 0)
          => /\ t_err' = ""
             /\ fs'[trained_model_file] = fs[trained_model_file]
             /\ fs'[history_file] = fs[history_file]]_vars

-----------------------------------------------------------------------------
(*              InitializeModel.__init__ on a caller's dataset             *)

\* set_default_optimization_params (line 254): self.num_epochs
DefaultEpochs == 40

\* os_utils.make_new_dirs(path, clean_subdirs) seen from outside the
\* directory: a missing directory is created, an existing one is cleaned
\* when clean_subdirs is set and left as it is otherwise
make_new_dirs_event(existed, clean_subdirs) ==
    IF ~existed THEN "created"
    ELSE IF clean_subdirs THEN "cleaned"
    ELSE "kept"

\* __init__ lines 47-54: the attributes are stored, the defaults are set and,
\* with run_debug, set_run_debug runs on the caller's dataset object
InitializeModel_enter ==
    /\ c_pc = "new"
    /\ d_pc = "constructed"
    /\ c_pc' = "resolve"
    /\ caller_train' = train_dataset
    /\ caller_valid' = valid_dataset
    /\ model_name' = lower(requested_name)
    /\ r_pc' = "get_complexity"
    /\ IF run_debug
       THEN set_run_debug
       ELSE /\ num_epochs' = DefaultEpochs
            /\ UNCHANGED dataVars
            /\ UNCHANGED <<t_pc, fresh_requested, ckpt_existed, hist_existed,
                           train_fresh, weights_loaded, fs, mc_best, run_no, epoch,
                           history_metric, backup_models, esc_i, esc_n,
                           callback_order, esc_steps, t_err>>
    /\ UNCHANGED <<requested_name, model_name_base, model_complexity, model_type,
                   import_statement, method_name, r_err>>
    /\ UNCHANGED <<run_debug, dir_existed, dir_event>>
    /\ learning_rate_base' = DefaultLearningRate
    /\ UNCHANGED <<learning_rate, optimizer, compiled_rate>>

\* __init__ line 58, reached when set_model_type has returned
make_output_dir ==
    /\ c_pc = "resolve"
    /\ r_pc = "make_model"
    /\ c_pc' = "make_model"
    /\ dir_event' = make_new_dirs_event(dir_existed, fresh_requested)
    /\ UNCHANGED <<run_debug, dir_existed, caller_train, caller_valid>>

\* make_model lines 115-126 once the import statement is composed: the
\* module is imported and the constructor looked up in it; `resolvable` says
\* whether the framework has the module and the symbol
import_model(resolvable) ==
    /\ c_pc = "make_model"
    /\ r_pc = "imported"
    /\ IF resolvable
       THEN c_pc' = "built" /\ UNCHANGED <<r_pc, r_err>>
       ELSE c_pc' = c_pc /\ r_pc' = "failed" /\ r_err' = "ModelConstructionFailed"
    /\ UNCHANGED <<requested_name, model_name, model_name_base, model_complexity,
                   model_type, import_statement, method_name>>
    /\ UNCHANGED <<run_debug, dir_existed, dir_event, caller_train, caller_valid>>

-----------------------------------------------------------------------------
(*                  SpecConstruct: the inputs and the machine               *)

\* names that end construction at each of its stages, and names that pass
ConstructNames ==
    {"lenet", "", "resnet" \o Pad(ComplexityLimit + 1), "vgg", "densenet", "ResNet",
     "regnet", "VGG16", "EfficientNetB2", "resnet50_v2", "unet", "unet2", "mobilenet"}

\* directory listings the caller's dataset is built from
ConstructImageCounts == {MaxImages, ExampleSize, 5 * ExampleSize}

InitConstruct ==
    /\ c_pc = "new"
    /\ run_debug \in BOOLEAN
    /\ dir_existed \in BOOLEAN
    /\ dir_event = "none"
    /\ caller_train = NoDataset /\ caller_valid = NoDataset
    /\ requested_name \in ConstructNames
    /\ r_pc = "idle" /\ model_name = ""
    /\ model_name_base = "" /\ model_complexity = "" /\ model_type = ""
    /\ import_statement = "" /\ method_name = "" /\ r_err = ""
    /\ d_pc = "new" /\ d_kind = "none"
    /\ n_images \in ConstructImageCounts
    /\ n_targets = n_images
    /\ has_gpu = FALSE
    /\ num_examples = 0 /\ batch_size = 0
    /\ train_count = 0 /\ valid_count = 0 /\ test_count = 0
    /\ train_dataset = NoDataset /\ valid_dataset = NoDataset
    /\ train_steps = 0 /\ valid_steps = 0
    /\ d_err = "" /\ d_stage = ""
    /\ last_request = -1 /\ last_limit = -1
    /\ t_pc = "idle" /\ fresh_requested \in BOOLEAN
    /\ ckpt_existed = FALSE /\ hist_existed = FALSE
    /\ train_fresh = fresh_requested /\ weights_loaded = "no"
    /\ fs = <<>> /\ mc_best = -1 /\ run_no = 0 /\ epoch = 0 /\ num_epochs = 0
    /\ history_metric = -1 /\ backup_models = <<>>
    /\ esc_i = 0 /\ esc_n = 0 /\ callback_order = <<>> /\ esc_steps = <<>>
    /\ t_err = ""
    /\ SplitIdle
    /\ OptIdle

ImportModel == \E resolvable \in BOOLEAN : import_model(resolvable)

NextConstruct ==
    \/ ConstructMask /\ UNCHANGED <<resolveVars, trainVars, splitVars, constructVars, optVars>>
    \/ ConstructLabel /\ UNCHANGED <<resolveVars, trainVars, splitVars, constructVars, optVars>>
    \/ InitializeModel_enter /\ UNCHANGED splitVars
    \/ (c_pc = "resolve" /\ get_complexity_from_model_name)
           /\ UNCHANGED <<dataVars, trainVars, splitVars, constructVars, optVars>>
    \/ (c_pc = "resolve" /\ set_model_type)
           /\ UNCHANGED <<dataVars, trainVars, splitVars, constructVars, optVars>>
    \/ make_output_dir /\ UNCHANGED <<resolveVars, dataVars, trainVars, splitVars, optVars>>
    \/ (c_pc = "make_model" /\ make_import_statement)
           /\ UNCHANGED <<dataVars, trainVars, splitVars, constructVars, optVars>>
    \/ ImportModel /\ UNCHANGED <<dataVars, trainVars, splitVars, optVars>>

SpecConstruct == InitConstruct /\ [][NextConstruct]_vars

-----------------------------------------------------------------------------
(*                      Properties of the construction                     *)

\* __init__ raised: no orchestrator object exists
ConstructionFailed == c_pc \in {"resolve", "make_model"} /\ r_pc = "failed"

\* the pipeline yields the batches of the same split as another
SameSequence(a, b) ==
    /\ a.split = b.split /\ a.samples = b.samples /\ a.batch = b.batch
    /\ len_dataset(a) = len_dataset(b)

\* C21: when construction of the orchestrator has failed, the caller's
\* dataset still has the train and validation sequences it had when __init__
\* was entered, and the output directory was neither created nor cleaned.
C21_FailedConstructionLeavesNoTrace ==
    ConstructionFailed =>
        /\ SameSequence(train_dataset, caller_train)
        /\ SameSequence(valid_dataset, caller_valid)
        /\ dir_event \notin {"created", "cleaned"}

-----------------------------------------------------------------------------
(*                    SpecOptim: the inputs and the machine                 *)

\* the learning rates a caller asks for: 1e-4 (below the default) and 2e-3
RequestedRates == {1, 2 * DefaultLearningRate}

\* the dictionaries passed to set_optimization_params, as their items
OptParams ==
    {<<<<"learning_rate", r>>>> : r \in RequestedRates}
    \cup {<<<<"num_epochs", n>>>> : n \in 1..MaxEpochs}
    \cup {<<<<"batch_size", MaxRequest>>>>}
    \cup {<<<<"num_epochs", n>>, <<"learning_rate", r>>>> :
               n \in 1..MaxEpochs, r \in RequestedRates}

SetOptimizationParams == \E opt_params \in OptParams : set_optimization_params(opt_params)

\* an orchestrator constructed on an empty output directory
InitOptim ==
    /\ InitTrain
    /\ ~ckpt_existed /\ ~hist_existed

\* the epochs of SpecOptim end with the best loss level; their metric varies
OptimEpochEnd == \E m \in Metrics : on_epoch_end(0, m)

NextOptim ==
    \/ Construct /\ UNCHANGED <<resolveVars, dataVars, splitVars, constructVars>>
    \/ SetOptimizationParams /\ UNCHANGED <<resolveVars, dataVars, splitVars, constructVars>>
    \/ run_model /\ UNCHANGED <<resolveVars, dataVars, splitVars, constructVars>>
    \/ OptimEpochEnd /\ UNCHANGED <<resolveVars, dataVars, splitVars, constructVars, optVars>>
    \/ Escape /\ UNCHANGED <<resolveVars, dataVars, splitVars, constructVars, optVars>>
    \/ escape_attempt /\ UNCHANGED <<resolveVars, dataVars, splitVars, constructVars>>
    \/ pick_best_model /\ UNCHANGED <<resolveVars, dataVars, splitVars, constructVars, optVars>>

SpecOptim == InitOptim /\ [][NextOptim]_vars

-----------------------------------------------------------------------------
(*                 Properties of the optimization parameters               *)

\* set_optimization_params has set the allow-listed key learning_rate
RateWasSet == learning_rate # NoRate

\* C22: once set_optimization_params has set learning_rate to r, the
\* optimizer a following run_model compiles the model with has learning rate
\* r, and so has the optimizer an escape attempt rebuilds with set_optimizer
\* before its run.
C22_RequestedRateUsed ==
    (RateWasSet /\ t_pc \in {"fit", "esc_fit"}) =>
        /\ compiled_rate = learning_rate
        /\ t_pc = "esc_fit" => optimizer = learning_rate

====
